---- MODULE Spec2Model ----
(***************************************************************************)
(* Sentinel-1 land mask: WorldCover tile selection, reprojection of tiles  *)
(* onto the Sentinel-1 grid, land-mask classification, morphological       *)
(* cleanup and mask application, as implemented by the scripts under src/.  *)
(*                                                                         *)
(* Coordinates are fixed-point: an integer x stands for x / Scale degrees. *)
(* Arrays are functions over the pixel set of the destination grid.        *)
(***************************************************************************)
EXTENDS Integers, Sequences, FiniteSets, TLC

VARIABLES
    \* snap_to_worldcover_grid, called on its own
    value, snapped, spc,
    \* find_required_worldcover_tiles
    bounds_wgs84, worldcover_dir, filename_suffix,
    lat, lon, tiles, sorted_tiles, paths, tpc, calls, first_paths,
    \* reproject_*_tiles_to_s1
    variant, tile_paths, dst, first_write, path_idx, apc,
    \* classification, cleanup and mask application
    rule, aligned, land_mask, sar_array, sar_land_removed, mpc,
    \* the scripts run_land_mask.py and land_mask_hybrid.py
    SCENES, worldcover_files, idx, dpc, hh, hv, bounds, WC_PATHS, wc_mosaic,
    written,
    \* binary_fill_holes called on a mask
    fill_input, fill_output, fpc,
    \* the classification rules applied to an array of class codes
    class_codes, decided

snapVars == <<value, snapped, spc>>
tileVars == <<bounds_wgs84, worldcover_dir, filename_suffix,
              lat, lon, tiles, sorted_tiles, paths, tpc, calls, first_paths>>
accVars == <<variant, tile_paths, dst, first_write, path_idx, apc>>
maskVars == <<rule, aligned, land_mask, sar_array, sar_land_removed, mpc>>
scriptVars == <<SCENES, worldcover_files, idx, dpc, hh, hv, bounds, WC_PATHS,
                wc_mosaic, written>>
\* the variables of the mask runs that the scripts leave alone
maskRest == <<rule, sar_array, sar_land_removed, mpc>>
fillVars == <<fill_input, fill_output, fpc>>
classVars == <<class_codes, decided>>
vars == <<snapVars, tileVars, accVars, maskVars, scriptVars, fillVars, classVars>>

-----------------------------------------------------------------------------
(* Bounds of the model and constants of the program *)

\* fixed-point resolution: units per degree
Scale == 10
\* snap inputs range over -MaxValue..MaxValue (fixed-point units)
MaxValue == 70
\* longitudes of bounds range over -MaxLon..MaxLon whole degrees
MaxLon == 4
\* latitudes of bounds range over -MaxLat..MaxLat whole degrees
MaxLat == 1
\* the ESA WorldCover grid: 3 degree cells
CellSize == 3
\* tile lists of reproject_*_tiles_to_s1 hold at most MaxTiles tiles
MaxTiles == 2
\* SCENES of run_land_mask.py holds at most MaxScenes scenes
MaxScenes == 2
\* WorldCover class codes: nodata, tree cover (a land class), open water
WcNodata == 0
WcTree == 10
WcWater == 80
\* the land-mask encoding: land = 1, water = 0, nodata = 255
LmLand == 1
LmWater == 0
LmNodata == 255
\* dst_nodata of the class-code arrays
DST_NODATA == -1

None == "None"

-----------------------------------------------------------------------------
(* worldcover/tiles.py: grid snapping and tile names *)

Abs(n) == IF n < 0 THEN -n ELSE n

\* int(value / 3.0) * 3: truncation toward zero instead of math.floor
SnapTowardZero(v) ==
    IF v >= 0 THEN (v \div (CellSize * Scale)) * CellSize
              ELSE -(((-v) \div (CellSize * Scale)) * CellSize)

\* int(math.floor(value / 3.0) * 3), value in fixed-point units, result in
\* whole degrees
snap_to_worldcover_grid(v) == (v \div (CellSize * Scale)) * CellSize

\* the decimal digits of n >= 0 as character codes, most significant first
RECURSIVE Decimal(_)
Decimal(n) == IF n < 10 THEN <<48 + n>>
                        ELSE Decimal(n \div 10) \o <<48 + (n % 10)>>

RECURSIVE Zeros(_)
Zeros(k) == IF k <= 0 THEN <<>> ELSE <<48>> \o Zeros(k - 1)

\* f"{n:0<width>d}" for n >= 0: zero-padded to at least width digits
ZeroPad(n, width) == Zeros(width - Len(Decimal(n))) \o Decimal(n)

\* "ESA_WorldCover_10m_2021_V200_"
NamePrefix == <<69, 83, 65, 95, 87, 111, 114, 108, 100, 67, 111, 118, 101, 114,
                95, 49, 48, 109, 95, 50, 48, 50, 49, 95, 86, 50, 48, 48, 95>>
\* "_Map.tif"
MapSuffix == <<95, 77, 97, 112, 46, 116, 105, 102>>
\* "_preprocessed.tif"
PreprocessedSuffix == <<95, 112, 114, 101, 112, 114, 111, 99, 101, 115, 115,
                        101, 100, 46, 116, 105, 102>>

\* lat_str: "N" (78) or "S" (83), two digits; lon_str: "W" (87) or "E" (69),
\* three digits
worldcover_tile_name(la, lo, suffix) ==
    LET lat_str == IF la >= 0 THEN <<78>> \o ZeroPad(la, 2)
                              ELSE <<83>> \o ZeroPad(Abs(la), 2)
        lon_str == IF lo < 0 THEN <<87>> \o ZeroPad(Abs(lo), 3)
                             ELSE <<69>> \o ZeroPad(lo, 3)
    IN  NamePrefix \o lat_str \o lon_str \o suffix

\* str.__lt__: comparison by code point, a proper prefix is smaller
LexLess(a, b) ==
    \/ \E i \in 1..Len(a) :
          /\ i <= Len(b)
          /\ a[i] < b[i]
          /\ \A j \in 1..(i - 1) : a[j] = b[j]
    \/ /\ Len(a) < Len(b)
       /\ \A j \in 1..Len(a) : a[j] = b[j]

\* sorted(names, reverse=True)
RECURSIVE SortedDescending(_)
SortedDescending(S) ==
    IF S = {} THEN <<>>
    ELSE LET m == CHOOSE x \in S : \A y \in S \ {x} : LexLess(y, x)
         IN  <<m>> \o SortedDescending(S \ {m})

\* sorted(tiles): the set of names as a list in ascending str order
RECURSIVE sorted(_)
sorted(S) ==
    IF S = {} THEN <<>>
    ELSE LET m == CHOOSE x \in S : \A y \in S \ {x} : LexLess(x, y)
         IN  <<m>> \o sorted(S \ {m})

-----------------------------------------------------------------------------
(* worldcover/tiles.py: find_required_worldcover_tiles *)

\* tile_w >= west written for tile_w >= east
IntersectsWrongEdge(tile_s, tile_w, w, s, e, n) ==
    ~ \/ (tile_w + CellSize) * Scale <= w
      \/ tile_w * Scale >= w
      \/ (tile_s + CellSize) * Scale <= s
      \/ tile_s * Scale >= n

\* intersects = not (tile_e <= west or tile_w >= east or tile_n <= south or
\* tile_s >= north), the tile in whole degrees, the bounds in fixed point
Intersects(tile_s, tile_w, w, s, e, n) ==
    ~ \/ (tile_w + CellSize) * Scale <= w
      \/ tile_w * Scale >= e
      \/ (tile_s + CellSize) * Scale <= s
      \/ tile_s * Scale >= n

NeverEmpty(p) == FALSE

\* if not paths
NoPaths(p) == p = <<>>

\* the inner while loop (lines 69-85) from lo on: the names it adds to acc
RECURSIVE LonLoop(_, _, _, _, _)
LonLoop(la, lo, b, suffix, acc) ==
    IF lo * Scale < b[3]
    THEN LonLoop(la, lo + CellSize, b, suffix,
                 IF Intersects(la, lo, b[1], b[2], b[3], b[4])
                 THEN acc \cup {worldcover_tile_name(la, lo, suffix)}
                 ELSE acc)
    ELSE acc

\* the outer while loop (lines 67-86) from la on
RECURSIVE LatLoop(_, _, _, _)
LatLoop(la, b, suffix, acc) ==
    IF la * Scale < b[4]
    THEN LatLoop(la + CellSize, b, suffix,
                 LonLoop(la, snap_to_worldcover_grid(b[1]), b, suffix, acc))
    ELSE acc

\* lines 91-97: the names of sorted(tiles) that exist in the directory
RECURSIVE ExistingOf(_, _)
ExistingOf(names, dir) ==
    IF names = <<>> THEN <<>>
    ELSE IF Head(names) \in dir THEN <<Head(names)>> \o ExistingOf(Tail(names), dir)
    ELSE ExistingOf(Tail(names), dir)

\* find_required_worldcover_tiles as one call: the list it returns; it
\* raises RuntimeError when NoPaths holds of the list
find_required_worldcover_tiles(b, dir, suffix) ==
    ExistingOf(sorted(LatLoop(snap_to_worldcover_grid(b[2]), b, suffix, {})), dir)

West == bounds_wgs84[1]
South == bounds_wgs84[2]
East == bounds_wgs84[3]
North == bounds_wgs84[4]

\* the tile names a directory may hold: the cells around the origin
DirUniverse(suffix) ==
    { worldcover_tile_name(la, lo, suffix) :
        la \in {-CellSize, 0}, lo \in {-CellSize, 0} }

Degrees(max) == { d * Scale : d \in -max..max }

TilesIdle ==
    /\ bounds_wgs84 = <<0, 0, 0, 0>>
    /\ worldcover_dir = {}
    /\ filename_suffix = <<>>
    /\ lat = 0
    /\ lon = 0
    /\ tiles = {}
    /\ sorted_tiles = <<>>
    /\ paths = <<>>
    /\ tpc = "idle"
    /\ calls = 0
    /\ first_paths = <<>>

\* lines 64, 66: tiles = set(); lat = snap_to_worldcover_grid(south)
FindCall ==
    /\ tpc = "call"
    /\ tiles' = {}
    /\ lat' = snap_to_worldcover_grid(South)
    /\ tpc' = "lat_loop"
    /\ UNCHANGED <<bounds_wgs84, worldcover_dir, filename_suffix, lon,
                   sorted_tiles, paths, calls, first_paths>>

\* lines 67, 68: while lat < north: lon = snap_to_worldcover_grid(west)
LatLoopEnter ==
    /\ tpc = "lat_loop"
    /\ lat * Scale < North
    /\ lon' = snap_to_worldcover_grid(West)
    /\ tpc' = "lon_loop"
    /\ UNCHANGED <<bounds_wgs84, worldcover_dir, filename_suffix, lat, tiles,
                   sorted_tiles, paths, calls, first_paths>>

\* the body of while lon < east without lon += 3
LonLoopBodyNoStep ==
    /\ tpc = "lon_loop"
    /\ lon * Scale < East
    /\ tiles' = IF Intersects(lat, lon, West, South, East, North)
                THEN tiles \cup {worldcover_tile_name(lat, lon, filename_suffix)}
                ELSE tiles
    /\ UNCHANGED <<bounds_wgs84, worldcover_dir, filename_suffix, lat, lon,
                   sorted_tiles, paths, tpc, calls, first_paths>>

\* lines 69-85: one pass of the body of while lon < east
LonLoopBody ==
    /\ tpc = "lon_loop"
    /\ lon * Scale < East
    /\ tiles' = IF Intersects(lat, lon, West, South, East, North)
                THEN tiles \cup {worldcover_tile_name(lat, lon, filename_suffix)}
                ELSE tiles
    /\ lon' = lon + CellSize
    /\ UNCHANGED <<bounds_wgs84, worldcover_dir, filename_suffix, lat,
                   sorted_tiles, paths, tpc, calls, first_paths>>

\* lines 69, 86: lon >= east ends the inner loop; lat += 3
LonLoopExit ==
    /\ tpc = "lon_loop"
    /\ ~(lon * Scale < East)
    /\ lat' = lat + CellSize
    /\ tpc' = "lat_loop"
    /\ UNCHANGED <<bounds_wgs84, worldcover_dir, filename_suffix, lon, tiles,
                   sorted_tiles, paths, calls, first_paths>>

\* lines 67, 91-94: lat >= north ends the outer loop; paths = [];
\* the for loop starts over sorted(tiles)
LatLoopExit ==
    /\ tpc = "lat_loop"
    /\ ~(lat * Scale < North)
    /\ paths' = <<>>
    /\ sorted_tiles' = sorted(tiles)
    /\ tpc' = "resolve"
    /\ UNCHANGED <<bounds_wgs84, worldcover_dir, filename_suffix, lat, lon,
                   tiles, calls, first_paths>>

\* lines 94-97: for t in sorted(tiles): if p.exists(): paths.append(p)
ResolveTile ==
    /\ tpc = "resolve"
    /\ sorted_tiles /= <<>>
    /\ paths' = IF Head(sorted_tiles) \in worldcover_dir
                THEN Append(paths, Head(sorted_tiles))
                ELSE paths
    /\ sorted_tiles' = Tail(sorted_tiles)
    /\ UNCHANGED <<bounds_wgs84, worldcover_dir, filename_suffix, lat, lon,
                   tiles, tpc, calls, first_paths>>

\* lines 99-100: raise RuntimeError("No matching WorldCover tiles found.")
RaiseNoTiles ==
    /\ tpc = "resolve"
    /\ sorted_tiles = <<>>
    /\ NoPaths(paths)
    /\ tpc' = "raised"
    /\ UNCHANGED <<bounds_wgs84, worldcover_dir, filename_suffix, lat, lon,
                   tiles, sorted_tiles, paths, calls, first_paths>>

\* line 102: return paths
ReturnPaths ==
    /\ tpc = "resolve"
    /\ sorted_tiles = <<>>
    /\ ~NoPaths(paths)
    /\ tpc' = "returned"
    /\ UNCHANGED <<bounds_wgs84, worldcover_dir, filename_suffix, lat, lon,
                   tiles, sorted_tiles, paths, calls, first_paths>>

\* the caller calls again with the same bounds and the same directory
CallAgain ==
    /\ tpc = "returned"
    /\ calls = 1
    /\ first_paths' = paths
    /\ calls' = 2
    /\ tpc' = "call"
    /\ UNCHANGED <<bounds_wgs84, worldcover_dir, filename_suffix, lat, lon,
                   tiles, sorted_tiles, paths>>

-----------------------------------------------------------------------------
(* worldcover/tiles.py: snap_to_worldcover_grid as an operation *)

SnapIdle == value = 0 /\ snapped = 0 /\ spc = "idle"

\* lines 7-12: return int(math.floor(value / 3.0) * 3)
SnapCall ==
    /\ spc = "call"
    /\ snapped' = snap_to_worldcover_grid(value)
    /\ spc' = "returned"
    /\ UNCHANGED <<value, tileVars, accVars, maskVars, scriptVars, fillVars, classVars>>

-----------------------------------------------------------------------------
(* worldcover/reprojection.py: direct multi-tile accumulation *)

\* the pixels (row, col) of an array of shape (height, width)
Pixels(shape) == (0..(shape[1] - 1)) \X (0..(shape[2] - 1))

\* dst_shape of the accumulation runs: one row of two pixels
AccShape == <<1, 2>>

\* array_bounds(height, width, dst_transform) for a north-up grid of unit
\* pixels with its lower left corner at the origin: left, bottom, right, top
array_bounds(shape) == <<0, 0, shape[2], shape[1]>>

\* the centre of pixel p of the destination lies inside the box
CentreInBox(p, shape, box) ==
    /\ box[1] <= p[2] /\ p[2] < box[3]
    /\ box[2] <= shape[1] - 1 - p[1] /\ shape[1] - 1 - p[1] < box[4]

\* per function: src_nodata and dst_nodata of its reproject call
SrcNodata(vr) == IF vr = "worldcover" THEN WcNodata ELSE LmNodata
DstNodata(vr) == IF vr = "worldcover" THEN DST_NODATA ELSE LmNodata

\* the nodata value of the tile files the function reads
FileNodata(vr) == IF vr = "preprocessed" THEN LmNodata ELSE WcNodata

\* the values a tile file of the function's input may hold
TileValues(vr) ==
    IF vr = "preprocessed" THEN {LmNodata, LmWater, LmLand}
                           ELSE {WcNodata, WcTree, WcWater}

\* src_mask without the test for water: [src_data != 0] = 1
SrcMaskWaterAsLand(x) ==
    IF x = WcNodata THEN LmNodata
    ELSE LmLand

\* src_mask of reproject_worldcover_landmask_tiles_to_s1: zeros,
\* [src_data == 0] = dst_nodata, [(src_data != 0) & (src_data != 80)] = 1
SrcMask(x) ==
    IF x = WcNodata THEN LmNodata
    ELSE IF x /= WcWater THEN LmLand
    ELSE LmWater

\* the source array handed to reproject: band 1 of the file, or src_mask
SourceOf(vr, tile) ==
    IF vr = "landmask" THEN [p \in DOMAIN tile.data |-> SrcMask(tile.data[p])]
                       ELSE tile.data

\* the destination pixels that have a nearest source pixel in the tile
Footprint(tile, shape) == { p \in Pixels(shape) : CentreInBox(p, shape, tile.box) }

\* the tiles of a run: the bounds of the tile in the destination CRS
\* (transform_bounds) and, per destination pixel of its footprint, the
\* nearest source value (elsewhere data is not read: held at the first value)
TileSet(vr, shape) ==
    { t \in [box : { <<l, b, l + shape[2], b + shape[1]>> :
                        l \in (-shape[2])..shape[2],
                        b \in (-shape[1])..shape[1] },
             data : [Pixels(shape) -> TileValues(vr)]] :
        \A p \in Pixels(shape) \ Footprint(t, shape) : t.data[p] = FileNodata(vr) }

\* the skip test of lines 76-81 negated: the tile is reprojected
Overlaps(box, dbox) ==
    ~ \/ box[3] <= dbox[1]
      \/ box[1] >= dbox[3]
      \/ box[4] <= dbox[2]
      \/ box[2] >= dbox[4]

\* reproject without src_nodata: nodata source pixels are written as well
ReprojectNodataWritten(source, footprint, destination, src_nodata, dst_nodata, init_dest_nodata) ==
    [p \in DOMAIN destination |->
        IF p \in footprint
        THEN (IF source[p] = src_nodata THEN dst_nodata ELSE source[p])
        ELSE IF init_dest_nodata THEN dst_nodata
        ELSE destination[p]]

\* rasterio.warp.reproject with Resampling.nearest: a destination pixel takes
\* the nearest source value unless that is src_nodata or there is none; with
\* init_dest_nodata the destination is filled with dst_nodata first
reproject(source, footprint, destination, src_nodata, dst_nodata, init_dest_nodata) ==
    [p \in DOMAIN destination |->
        IF p \in footprint /\ source[p] /= src_nodata THEN source[p]
        ELSE IF init_dest_nodata THEN dst_nodata
        ELSE destination[p]]

\* np.full(dst_shape, dst_nodata)
full(shape, fill_value) == [p \in Pixels(shape) |-> fill_value]

\* the loop body with first_write = False missing: every tile that is
\* written initialises the array again
TileStepFlagKept(vr, tile, d, fw, shape) ==
    IF ~Overlaps(tile.box, array_bounds(shape))
    THEN [dst |-> d, first_write |-> fw]
    ELSE [dst |-> reproject(SourceOf(vr, tile), Footprint(tile, shape), d,
                            SrcNodata(vr), DstNodata(vr), fw),
          first_write |-> fw]

\* the body of for path in tile_paths (lines 68-97) on one tile: continue,
\* or reproject into the array and clear first_write
TileStep(vr, tile, d, fw, shape) ==
    IF ~Overlaps(tile.box, array_bounds(shape))
    THEN [dst |-> d, first_write |-> fw]
    ELSE [dst |-> reproject(SourceOf(vr, tile), Footprint(tile, shape), d,
                            SrcNodata(vr), DstNodata(vr), fw),
          first_write |-> FALSE]

\* the whole loop from tile i on, and the array it returns
RECURSIVE TileLoop(_, _, _, _, _, _)
TileLoop(vr, tl, i, d, fw, shape) ==
    IF i > Len(tl) THEN d
    ELSE LET st == TileStep(vr, tl[i], d, fw, shape)
         IN  TileLoop(vr, tl, i + 1, st.dst, st.first_write, shape)

\* reproject_worldcover_tiles_to_s1, reproject_worldcover_landmask_tiles_to_s1
\* and reproject_preprocessed_landmask_tiles_to_s1 as one call
reproject_tiles_to_s1(vr, tl, shape) ==
    TileLoop(vr, tl, 1, full(shape, DstNodata(vr)), TRUE, shape)

AccIdle ==
    /\ variant = "idle"
    /\ tile_paths = <<>>
    /\ dst = <<>>
    /\ first_write = FALSE
    /\ path_idx = 0
    /\ apc = "idle"

\* lines 57-64: wc_reproj = np.full(dst_shape, dst_nodata); first_write = True
AccCall ==
    /\ apc = "call"
    /\ dst' = full(AccShape, DstNodata(variant))
    /\ first_write' = TRUE
    /\ path_idx' = 1
    /\ apc' = "loop"
    /\ UNCHANGED <<variant, tile_paths>>

\* lines 68-82: the tile's bounds do not meet the destination's: continue
SkipTile ==
    /\ apc = "loop"
    /\ path_idx <= Len(tile_paths)
    /\ ~Overlaps(tile_paths[path_idx].box, array_bounds(AccShape))
    /\ dst' = TileStep(variant, tile_paths[path_idx], dst, first_write, AccShape).dst
    /\ first_write' =
          TileStep(variant, tile_paths[path_idx], dst, first_write, AccShape).first_write
    /\ path_idx' = path_idx + 1
    /\ UNCHANGED <<variant, tile_paths, apc>>

\* lines 84-97: reproject(..., init_dest_nodata=first_write);
\* first_write = False
ReprojectTile ==
    /\ apc = "loop"
    /\ path_idx <= Len(tile_paths)
    /\ Overlaps(tile_paths[path_idx].box, array_bounds(AccShape))
    /\ dst' = TileStep(variant, tile_paths[path_idx], dst, first_write, AccShape).dst
    /\ first_write' =
          TileStep(variant, tile_paths[path_idx], dst, first_write, AccShape).first_write
    /\ path_idx' = path_idx + 1
    /\ UNCHANGED <<variant, tile_paths, apc>>

\* line 99: return wc_reproj
AccReturn ==
    /\ apc = "loop"
    /\ path_idx > Len(tile_paths)
    /\ apc' = "returned"
    /\ UNCHANGED <<variant, tile_paths, dst, first_write, path_idx>>

-----------------------------------------------------------------------------
(* scipy.ndimage binary morphology, as the scripts call it: the default     *)
(* structuring element (the pixel and its four edge neighbours) and, for    *)
(* dilation, erosion, opening and closing, border_value = 0                 *)

\* the edge neighbours of p inside the array
Neighbours(p, shape) ==
    { q \in { <<p[1] - 1, p[2]>>, <<p[1] + 1, p[2]>>,
              <<p[1], p[2] - 1>>, <<p[1], p[2] + 1>> } :
        /\ 0 <= q[1] /\ q[1] < shape[1]
        /\ 0 <= q[2] /\ q[2] < shape[2] }

\* p has an edge neighbour outside the array
OnBorder(p, shape) ==
    \/ p[1] = 0 \/ p[1] = shape[1] - 1
    \/ p[2] = 0 \/ p[2] = shape[2] - 1

\* one pass of dilation: only the pixels of mask are modified
DilateOnce(m, shape, mask, border_value) ==
    LET set == { p \in Pixels(shape) :
                    IF mask[p]
                    THEN \/ m[p]
                         \/ \E q \in Neighbours(p, shape) : m[q]
                         \/ border_value /\ OnBorder(p, shape)
                    ELSE m[p] }
    IN  [p \in Pixels(shape) |-> p \in set]

\* one pass of erosion with border_value = 0
ErodeOnce(m, shape) ==
    LET set == { p \in Pixels(shape) :
                    /\ m[p]
                    /\ ~OnBorder(p, shape)
                    /\ \A q \in Neighbours(p, shape) : m[q] }
    IN  [p \in Pixels(shape) |-> p \in set]

AllTrue(shape) == [p \in Pixels(shape) |-> TRUE]
AllFalse(shape) == [p \in Pixels(shape) |-> FALSE]

RECURSIVE binary_dilation(_, _, _)
binary_dilation(m, shape, iterations) ==
    IF iterations = 0 THEN m
    ELSE binary_dilation(DilateOnce(m, shape, AllTrue(shape), FALSE), shape,
                         iterations - 1)

RECURSIVE binary_erosion(_, _, _)
binary_erosion(m, shape, iterations) ==
    IF iterations = 0 THEN m
    ELSE binary_erosion(ErodeOnce(m, shape), shape, iterations - 1)

\* erosion, then dilation
binary_opening(m, shape, iterations) ==
    binary_dilation(binary_erosion(m, shape, iterations), shape, iterations)

\* dilation, then erosion
binary_closing(m, shape, iterations) ==
    binary_erosion(binary_dilation(m, shape, iterations), shape, iterations)

\* binary_dilation(zeros, iterations=-1, mask=~input, border_value=1):
\* repeated until nothing changes
RECURSIVE FloodFromBorder(_, _, _)
FloodFromBorder(m, shape, mask) ==
    LET n == DilateOnce(m, shape, mask, TRUE)
    IN  IF n = m THEN m ELSE FloodFromBorder(n, shape, mask)

\* np.logical_not of the flood of the complement from the border
binary_fill_holes(m, shape) ==
    LET flooded == FloodFromBorder(AllFalse(shape), shape,
                                   [p \in Pixels(shape) |-> ~m[p]])
    IN  [p \in Pixels(shape) |-> ~flooded[p]]

\* the shape of the masks binary_fill_holes is called on
FillShape == <<3, 4>>

FillIdle ==
    /\ fill_input = <<>>
    /\ fill_output = <<>>
    /\ fpc = "idle"

\* land_mask = binary_fill_holes(land_mask)
FillCall ==
    /\ fpc = "call"
    /\ fill_output' = binary_fill_holes(fill_input, FillShape)
    /\ fpc' = "returned"
    /\ UNCHANGED fill_input

-----------------------------------------------------------------------------
(* classification, cleanup and mask application: land_mask_hybrid.py,       *)
(* worldcover/mask.py (build_land_mask) and run_land_mask.py                *)

\* LAND_CLASSES = [10, 20, 30, 40, 50, 60, 70, 90, 95, 100]
LAND_CLASSES == {10, 20, 30, 40, 50, 60, 70, 90, 95, 100}

\* np.nan
NaN == "nan"

\* land_mask_hybrid.py lines 103-106: land_mask = zeros;
\* land_mask[valid_wc] = np.isin(wc_reproj[valid_wc], LAND_CLASSES)
ClassifyLandSet(wc_reproj) ==
    [p \in DOMAIN wc_reproj |->
        IF wc_reproj[p] /= DST_NODATA THEN wc_reproj[p] \in LAND_CLASSES
                                       ELSE FALSE]

\* mask.py lines 16-20: (a != 0) & (a != 80) & (a != -1)
ClassifyNotWater(worldcover_array) ==
    [p \in DOMAIN worldcover_array |->
        /\ worldcover_array[p] /= WcNodata
        /\ worldcover_array[p] /= WcWater
        /\ worldcover_array[p] /= DST_NODATA]

\* land_mask != 0 written for land_mask == 1
ClassifyNonZero(a) == [p \in DOMAIN a |-> a[p] /= LmWater]

\* run_land_mask.py line 163: land_mask = land_mask == 1
ClassifyLandIsOne(a) == [p \in DOMAIN a |-> a[p] = LmLand]

\* the classification of each script
Classify(rl, a) ==
    IF rl = "land_mask_hybrid" THEN ClassifyLandSet(a)
    ELSE IF rl = "build_land_mask" THEN ClassifyNotWater(a)
    ELSE ClassifyLandIsOne(a)

\* the nodata sentinel of the aligned array each script classifies
AlignedNodata(rl) == IF rl = "run_land_mask" THEN LmNodata ELSE DST_NODATA

\* binary_opening(1), binary_closing(2), binary_fill_holes
CleanupCoarse(m, shape) ==
    binary_fill_holes(binary_closing(binary_opening(m, shape, 1), shape, 2), shape)

\* binary_closing(1), binary_fill_holes, binary_dilation(2)
CleanupCoastline(m, shape) ==
    binary_dilation(binary_fill_holes(binary_closing(m, shape, 1), shape), shape, 2)

\* the cleanup of each script
Cleanup(rl, m, shape) ==
    IF rl = "run_land_mask" THEN CleanupCoastline(m, shape)
                            ELSE CleanupCoarse(m, shape)

\* the mask stamped onto the water instead of the land
ApplyInverted(mask, data) ==
    [p \in DOMAIN data |-> IF mask[p] THEN data[p] ELSE NaN]

\* data[land_mask] = np.nan (np.where(land_mask == 1, np.nan, hh) in
\* land_mask_hybrid.py)
ApplyMask(mask, data) ==
    [p \in DOMAIN data |-> IF mask[p] THEN NaN ELSE data[p]]

\* the shape of the arrays of the mask runs: the smallest on which the
\* cleanup of the script can leave a mask that is true at some pixels only
MaskShape(rl) == IF rl = "run_land_mask" THEN <<3, 4>> ELSE <<5, 5>>

MaskIdle ==
    /\ rule = "idle"
    /\ aligned = <<>>
    /\ land_mask = <<>>
    /\ sar_array = <<>>
    /\ sar_land_removed = <<>>
    /\ mpc = "idle"

\* the classification statement of the script
ClassifyStep ==
    /\ mpc = "aligned"
    /\ land_mask' = Classify(rule, aligned)
    /\ mpc' = "classified"
    /\ UNCHANGED <<rule, aligned, sar_array, sar_land_removed>>

\* the morphological cleanup statements of the script
CleanupStep ==
    /\ mpc = "classified"
    /\ land_mask' = Cleanup(rule, land_mask, MaskShape(rule))
    /\ mpc' = "cleaned"
    /\ UNCHANGED <<rule, aligned, sar_array, sar_land_removed>>

\* sar_land_removed = sar_array.copy(); sar_land_removed[land_mask] = np.nan
ApplyStep ==
    /\ mpc = "cleaned"
    /\ sar_land_removed' = ApplyMask(land_mask, sar_array)
    /\ mpc' = "applied"
    /\ UNCHANGED <<rule, aligned, land_mask, sar_array>>

-----------------------------------------------------------------------------
(* the scripts: scenes, tile files, and the steps of run_land_mask.py and    *)
(* land_mask_hybrid.py                                                      *)

\* dst_shape of the scenes; a pixel is one degree wide and high, the CRS of
\* a scene is geographic, so transform_bounds to EPSG:4326 changes nothing
SceneShape == <<3, 4>>

\* the upper left corners (longitude, latitude, whole degrees) of the scenes
SceneOrigins == { <<-CellSize, CellSize>> }

\* the grid of the HH file of a scene: src.crs, src.transform, hh.shape
HHGrid(scene) ==
    [crs |-> "EPSG:4326", transform |-> scene.origin, shape |-> SceneShape]

\* the grids an HV file may have: that of HH, or another CRS, another
\* transform, another shape
HVGrids(origin) ==
    { [crs |-> "EPSG:4326", transform |-> origin, shape |-> SceneShape],
      [crs |-> "EPSG:32633", transform |-> origin, shape |-> SceneShape] }

\* HH arrays: finite everywhere, finite in the last column only, or
\* not-a-number everywhere; HV arrays: finite with one not-a-number pixel
HHArrays(shape) ==
    { [p \in Pixels(shape) |-> "0.1"],
      [p \in Pixels(shape) |-> IF p[2] = shape[2] - 1 THEN "0.1" ELSE NaN],
      [p \in Pixels(shape) |-> NaN] }

HVArray == [p \in Pixels(SceneShape) |-> IF p = <<0, 0>> THEN NaN ELSE "0.2"]

SceneSet ==
    { sc \in [origin : SceneOrigins, hh : HHArrays(SceneShape), hv : {HVArray},
              hv_grid : UNION { HVGrids(o) : o \in SceneOrigins }] :
        sc.hv_grid.transform = sc.origin }

\* the cells that may have a tile file, and what a file may hold: per source
\* pixel (row from the south, column from the west, one degree each) a
\* WorldCover class code
FileCells == { <<0, -CellSize>>, <<0, 0>> }

\* dst_shape of the scene of land_mask_hybrid.py, and the cells under it
HybridShape == <<5, 5>>
HybridCells == { -CellSize, 0 } \X { -CellSize, 0 }
HybridScenes == [origin : SceneOrigins, hh : HHArrays(HybridShape)]

FileContents ==
    { [q \in (0..(CellSize - 1)) \X (0..(CellSize - 1)) |-> WcNodata],
      [q \in (0..(CellSize - 1)) \X (0..(CellSize - 1)) |-> WcTree],
      [q \in (0..(CellSize - 1)) \X (0..(CellSize - 1)) |->
          IF q[1] = 0 THEN WcNodata
          ELSE IF q[2] = CellSize - 1 THEN WcTree
          ELSE WcWater] }

\* the directories of tile files: cell -> content, for the cells that have
\* a file
Directories(all) ==
    UNION { [cells -> FileContents] : cells \in SUBSET all }

\* preprocess.py lines 32-34: zeros, [data == 0] = 255,
\* [(data != 0) & (data != 80)] = 1
preprocess(x) ==
    IF x = WcNodata THEN LmNodata
    ELSE IF x /= WcWater THEN LmLand
    ELSE LmWater

\* the names of the files of a directory, with the suffix of the script
FileNames(files, suffix) ==
    { worldcover_tile_name(c[1], c[2], suffix) : c \in DOMAIN files }

\* the cell of a file name
CellOf(name, files, suffix) ==
    CHOOSE c \in DOMAIN files : worldcover_tile_name(c[1], c[2], suffix) = name

\* rasterio.open(path) of a tile, seen from the grid of a scene: its bounds
\* in pixel units from the lower left corner of the scene, and per pixel of
\* the scene the value of the nearest source pixel
TileOnGrid(c, content, origin, shape, vr) ==
    LET l == c[2] - origin[1]
        b == c[1] - (origin[2] - shape[1])
        box == <<l, b, l + CellSize, b + CellSize>>
    IN  [box |-> box,
         data |-> [p \in Pixels(shape) |->
                     IF CentreInBox(p, shape, box)
                     THEN LET v == content[<<(origin[2] - 1 - p[1]) - c[1],
                                             (origin[1] + p[2]) - c[2]>>]
                          IN  IF vr = "preprocessed" THEN preprocess(v) ELSE v
                     ELSE FileNodata(vr)]]

\* the tiles of a list of paths, opened
RECURSIVE OpenTiles(_, _, _, _, _, _)
OpenTiles(names, files, suffix, origin, shape, vr) ==
    IF names = <<>> THEN <<>>
    ELSE LET c == CellOf(Head(names), files, suffix)
         IN  <<TileOnGrid(c, files[c], origin, shape, vr)>>
             \o OpenTiles(Tail(names), files, suffix, origin, shape, vr)

\* the rows and columns with a finite pixel
ValidRows(a, shape) ==
    { r \in 0..(shape[1] - 1) : \E c \in 0..(shape[2] - 1) : a[<<r, c>>] /= NaN }
ValidCols(a, shape) ==
    { c \in 0..(shape[2] - 1) : \E r \in 0..(shape[1] - 1) : a[<<r, c>>] /= NaN }

Min(S) == CHOOSE x \in S : \A y \in S : x <= y
Max(S) == CHOOSE x \in S : \A y \in S : y <= x

\* run_land_mask.py lines 90-102: the bounds (west, south, east, north) of
\* the rows and columns with finite pixels, in fixed point
AoiBounds(a, origin, shape) ==
    <<(origin[1] + Min(ValidCols(a, shape))) * Scale,
      (origin[2] - Max(ValidRows(a, shape)) - 1) * Scale,
      (origin[1] + Max(ValidCols(a, shape)) + 1) * Scale,
      (origin[2] - Min(ValidRows(a, shape))) * Scale>>

\* tiles.py lines 45-57: the bounds of the whole raster
RasterBounds(origin, shape) ==
    <<origin[1] * Scale, (origin[2] - shape[1]) * Scale,
      (origin[1] + shape[2]) * Scale, origin[2] * Scale>>

\* if src.crs != dst_crs or src.transform != dst_transform or
\* src.shape != dst_shape, negated
SameGrid(g, h) ==
    ~ \/ g.crs /= h.crs
      \/ g.transform /= h.transform
      \/ g.shape /= h.shape

\* the mask dilated once more before it is stamped onto HV
MaskGrownForHV(m) == binary_dilation(m, SceneShape, 1)

\* the mask stamped onto HV: land_mask, as it is
MaskForHV(m) == m

\* if nodata_count == land_mask.size
AllNodata(a, nd) == \A p \in DOMAIN a : a[p] = nd

ScriptIdle ==
    /\ SCENES = <<>>
    /\ worldcover_files = <<>>
    /\ idx = 0
    /\ dpc = "idle"
    /\ hh = <<>>
    /\ hv = <<>>
    /\ bounds = <<>>
    /\ WC_PATHS = <<>>
    /\ wc_mosaic = <<>>
    /\ written = <<>>

Scene == SCENES[idx]

(* run_land_mask.py *)

\* lines 53-75: the next scene of SCENES: read HH
LoadHH ==
    /\ dpc = "loop"
    /\ idx < Len(SCENES)
    /\ idx' = idx + 1
    /\ hh' = SCENES[idx + 1].hh
    /\ dpc' = "aoi"
    /\ UNCHANGED <<SCENES, worldcover_files, hv, bounds, WC_PATHS, written,
                   aligned, land_mask>>

\* lines 82-88: no finite pixel in HH: continue
SkipNoFinite ==
    /\ dpc = "aoi"
    /\ (ValidRows(hh, SceneShape) = {} \/ ValidCols(hh, SceneShape) = {})
    /\ dpc' = "loop"
    /\ UNCHANGED <<SCENES, worldcover_files, idx, hh, hv, bounds, WC_PATHS,
                   written, aligned, land_mask>>

\* lines 90-123: the bounds of the valid data
DeriveAoi ==
    /\ dpc = "aoi"
    /\ ~(ValidRows(hh, SceneShape) = {} \/ ValidCols(hh, SceneShape) = {})
    /\ bounds' = AoiBounds(hh, Scene.origin, SceneShape)
    /\ dpc' = "select"
    /\ UNCHANGED <<SCENES, worldcover_files, idx, hh, hv, WC_PATHS, written,
                   aligned, land_mask>>

\* lines 129-134: find_required_worldcover_tiles returns
SelectTiles ==
    /\ dpc = "select"
    /\ LET found == find_required_worldcover_tiles(bounds,
                        FileNames(worldcover_files, PreprocessedSuffix),
                        PreprocessedSuffix)
       IN  /\ ~NoPaths(found)
           /\ WC_PATHS' = found
    /\ dpc' = "reproject"
    /\ UNCHANGED <<SCENES, worldcover_files, idx, hh, hv, bounds, written,
                   aligned, land_mask>>

\* lines 129-134: find_required_worldcover_tiles raises RuntimeError, which
\* nothing in the script catches: the script ends
SelectTilesRaises ==
    /\ dpc = "select"
    /\ NoPaths(find_required_worldcover_tiles(bounds,
                   FileNames(worldcover_files, PreprocessedSuffix),
                   PreprocessedSuffix))
    /\ dpc' = "aborted"
    /\ UNCHANGED <<SCENES, worldcover_files, idx, hh, hv, bounds, WC_PATHS,
                   written, aligned, land_mask>>

\* lines 144-150: land_mask = reproject_preprocessed_landmask_tiles_to_s1(...)
ReprojectTiles ==
    /\ dpc = "reproject"
    /\ aligned' = reproject_tiles_to_s1("preprocessed",
                      OpenTiles(WC_PATHS, worldcover_files, PreprocessedSuffix,
                                Scene.origin, SceneShape, "preprocessed"),
                      SceneShape)
    /\ dpc' = "check"
    /\ UNCHANGED <<SCENES, worldcover_files, idx, hh, hv, bounds, WC_PATHS,
                   written, land_mask>>

\* lines 152-158: the array is all nodata: continue
SkipAllNodata ==
    /\ dpc = "check"
    /\ AllNodata(aligned, LmNodata)
    /\ dpc' = "loop"
    /\ UNCHANGED <<SCENES, worldcover_files, idx, hh, hv, bounds, WC_PATHS,
                   written, aligned, land_mask>>

\* lines 163-166: land_mask == 1, closing, fill holes, dilation
CleanMask ==
    /\ dpc = "check"
    /\ ~AllNodata(aligned, LmNodata)
    /\ land_mask' = CleanupCoastline(ClassifyLandIsOne(aligned), SceneShape)
    /\ dpc' = "apply_hh"
    /\ UNCHANGED <<SCENES, worldcover_files, idx, hh, hv, bounds, WC_PATHS,
                   written, aligned>>

\* lines 172-173: hh_masked = hh; hh_masked[land_mask] = np.nan
ApplyHH ==
    /\ dpc = "apply_hh"
    /\ hh' = ApplyMask(land_mask, hh)
    /\ dpc' = "load_hv"
    /\ UNCHANGED <<SCENES, worldcover_files, idx, hv, bounds, WC_PATHS,
                   written, aligned, land_mask>>

\* lines 179-182: the grid of HV is not that of HH: continue
SkipGridMismatch ==
    /\ dpc = "load_hv"
    /\ ~SameGrid(Scene.hv_grid, HHGrid(Scene))
    /\ dpc' = "loop"
    /\ UNCHANGED <<SCENES, worldcover_files, idx, hh, hv, bounds, WC_PATHS,
                   written, aligned, land_mask>>

\* lines 183-186: hv = src.read(1); hv_masked[land_mask] = np.nan
ApplyHV ==
    /\ dpc = "load_hv"
    /\ SameGrid(Scene.hv_grid, HHGrid(Scene))
    /\ hv' = ApplyMask(MaskForHV(land_mask), Scene.hv)
    /\ dpc' = "write"
    /\ UNCHANGED <<SCENES, worldcover_files, idx, hh, bounds, WC_PATHS,
                   written, aligned, land_mask>>

\* lines 191-198: the two masked images are written
WriteOutputs ==
    /\ dpc = "write"
    /\ written' = written \o << [scene |-> idx, file |-> "hh_masked", data |-> hh],
                               [scene |-> idx, file |-> "hv_masked", data |-> hv] >>
    /\ dpc' = "loop"
    /\ UNCHANGED <<SCENES, worldcover_files, idx, hh, hv, bounds, WC_PATHS,
                   aligned, land_mask>>

\* line 203: the loop is over
BatchDone ==
    /\ dpc = "loop"
    /\ idx = Len(SCENES)
    /\ dpc' = "done"
    /\ UNCHANGED <<SCENES, worldcover_files, idx, hh, hv, bounds, WC_PATHS,
                   written, aligned, land_mask>>

(* land_mask_hybrid.py *)

\* rasterio.merge.merge of the opened tiles: the union of their bounds,
\* filled with the nodata of the files, each tile in turn copied to the
\* pixels that are still nodata
RECURSIVE MergeInto(_, _, _)
MergeInto(tl, acc, shape) ==
    IF tl = <<>> THEN acc
    ELSE LET t == Head(tl)
         IN  MergeInto(Tail(tl),
                 [box |-> <<Min({acc.box[1], t.box[1]}), Min({acc.box[2], t.box[2]}),
                            Max({acc.box[3], t.box[3]}), Max({acc.box[4], t.box[4]})>>,
                  data |-> [p \in Pixels(shape) |->
                              IF /\ acc.data[p] = WcNodata
                                 /\ p \in Footprint(t, shape)
                              THEN t.data[p]
                              ELSE acc.data[p]]],
                 shape)

\* mosaic_worldcover_tiles(tile_paths)
mosaic_worldcover_tiles(tl, shape) ==
    MergeInto(Tail(tl), [box |-> Head(tl).box, data |-> Head(tl).data], shape)

\* reproject_worldcover_to_s1(wc_mosaic, ...): np.full(dst_shape, dst_nodata),
\* reproject with src_nodata=0
reproject_worldcover_to_s1(mosaic, shape) ==
    reproject(mosaic.data, Footprint(mosaic, shape), full(shape, DST_NODATA),
              WcNodata, DST_NODATA, TRUE)

\* land_mask.astype("uint8")
AsUint8(m) == [p \in DOMAIN m |-> IF m[p] THEN 1 ELSE 0]

\* np.where(land_mask == 1, np.nan, hh)
WhereLand(lm, data) == [p \in DOMAIN data |-> IF lm[p] = 1 THEN NaN ELSE data[p]]

\* lines 38-43: read HH
HybridLoad ==
    /\ dpc = "h_load"
    /\ idx' = 1
    /\ hh' = SCENES[1].hh
    /\ dpc' = "h_aoi"
    /\ UNCHANGED <<SCENES, worldcover_files, hv, bounds, WC_PATHS, wc_mosaic,
                   written, aligned, land_mask>>

\* lines 50-65: the bounds of the valid data
HybridAoi ==
    /\ dpc = "h_aoi"
    /\ ValidRows(hh, HybridShape) /= {}
    /\ bounds' = AoiBounds(hh, Scene.origin, HybridShape)
    /\ dpc' = "h_select"
    /\ UNCHANGED <<SCENES, worldcover_files, idx, hh, hv, WC_PATHS, wc_mosaic,
                   written, aligned, land_mask>>

\* line 53: rows.min() of an empty array raises ValueError: the script ends
HybridAoiRaises ==
    /\ dpc = "h_aoi"
    /\ ValidRows(hh, HybridShape) = {}
    /\ dpc' = "aborted"
    /\ UNCHANGED <<SCENES, worldcover_files, idx, hh, hv, bounds, WC_PATHS,
                   wc_mosaic, written, aligned, land_mask>>

\* line 73: find_required_worldcover_tiles(HH_PATH, WORLDCOVER_DIR) returns;
\* without bounds_wgs84 it takes the bounds of the raster
HybridSelect ==
    /\ dpc = "h_select"
    /\ LET found == find_required_worldcover_tiles(
                        RasterBounds(Scene.origin, HybridShape),
                        FileNames(worldcover_files, MapSuffix), MapSuffix)
       IN  /\ ~NoPaths(found)
           /\ WC_PATHS' = found
    /\ dpc' = "h_mosaic"
    /\ UNCHANGED <<SCENES, worldcover_files, idx, hh, hv, bounds, wc_mosaic,
                   written, aligned, land_mask>>

\* line 73: find_required_worldcover_tiles raises RuntimeError
HybridSelectRaises ==
    /\ dpc = "h_select"
    /\ NoPaths(find_required_worldcover_tiles(
                   RasterBounds(Scene.origin, HybridShape),
                   FileNames(worldcover_files, MapSuffix), MapSuffix))
    /\ dpc' = "aborted"
    /\ UNCHANGED <<SCENES, worldcover_files, idx, hh, hv, bounds, WC_PATHS,
                   wc_mosaic, written, aligned, land_mask>>

\* line 83: wc_mosaic, wc_transform = mosaic_worldcover_tiles(WC_PATHS)
HybridMosaic ==
    /\ dpc = "h_mosaic"
    /\ wc_mosaic' = mosaic_worldcover_tiles(
                        OpenTiles(WC_PATHS, worldcover_files, MapSuffix,
                                  Scene.origin, HybridShape, "worldcover"),
                        HybridShape)
    /\ dpc' = "h_reproject"
    /\ UNCHANGED <<SCENES, worldcover_files, idx, hh, hv, bounds, WC_PATHS,
                   written, aligned, land_mask>>

\* lines 90-98: wc_reproj = reproject_worldcover_to_s1(...)
HybridReproject ==
    /\ dpc = "h_reproject"
    /\ aligned' = reproject_worldcover_to_s1(wc_mosaic, HybridShape)
    /\ dpc' = "h_mask"
    /\ UNCHANGED <<SCENES, worldcover_files, idx, hh, hv, bounds, WC_PATHS,
                   wc_mosaic, written, land_mask>>

\* lines 104-115: the land mask, cleaned, as uint8
HybridBuildMask ==
    /\ dpc = "h_mask"
    /\ land_mask' = AsUint8(CleanupCoarse(ClassifyLandSet(aligned), HybridShape))
    /\ dpc' = "h_save"
    /\ UNCHANGED <<SCENES, worldcover_files, idx, hh, hv, bounds, WC_PATHS,
                   wc_mosaic, written, aligned>>

\* lines 121-125: the land mask is written
HybridSaveMask ==
    /\ dpc = "h_save"
    /\ written' = written \o << [scene |-> idx, file |-> "land_mask",
                                data |-> land_mask] >>
    /\ dpc' = "h_apply"
    /\ UNCHANGED <<SCENES, worldcover_files, idx, hh, hv, bounds, WC_PATHS,
                   wc_mosaic, aligned, land_mask>>

\* lines 131-137: the masked image is computed and written
HybridApplyWrite ==
    /\ dpc = "h_apply"
    /\ written' = written \o << [scene |-> idx, file |-> "hh_landmasked",
                                data |-> WhereLand(land_mask, hh)] >>
    /\ dpc' = "done"
    /\ UNCHANGED <<SCENES, worldcover_files, idx, hh, hv, bounds, WC_PATHS,
                   wc_mosaic, aligned, land_mask>>

\* the class codes of WorldCover, its nodata 0 included
WorldCoverCodes == {0, 10, 20, 30, 40, 50, 60, 70, 80, 90, 95, 100}

\* the shape of the arrays the rules are compared on
ClassShape == <<1, 2>>

\* the four rules
ClassRules == {"land_mask_hybrid", "build_land_mask", "landmask_tiles", "preprocess"}

\* the land / not land decision of each rule on an array of codes: the two
\* rules on class codes, and the two encodings compared with 1
Decide(r, a) ==
    IF r = "land_mask_hybrid" THEN ClassifyLandSet(a)
    ELSE IF r = "build_land_mask" THEN ClassifyNotWater(a)
    ELSE IF r = "landmask_tiles"
         THEN ClassifyLandIsOne([p \in DOMAIN a |-> SrcMask(a[p])])
    ELSE ClassifyLandIsOne([p \in DOMAIN a |-> preprocess(a[p])])

ClassIdle ==
    /\ class_codes = <<>>
    /\ decided = <<>>

\* land_mask_hybrid.py lines 104-106
DecideHybrid ==
    /\ class_codes /= <<>>
    /\ decided["land_mask_hybrid"] = <<>>
    /\ decided' = [decided EXCEPT !["land_mask_hybrid"] =
                      Decide("land_mask_hybrid", class_codes)]
    /\ UNCHANGED class_codes

\* mask.py lines 16-20
DecideBinary ==
    /\ class_codes /= <<>>
    /\ decided["build_land_mask"] = <<>>
    /\ decided' = [decided EXCEPT !["build_land_mask"] =
                      Decide("build_land_mask", class_codes)]
    /\ UNCHANGED class_codes

\* reprojection.py lines 143-146, compared with 1
DecideLandmaskTiles ==
    /\ class_codes /= <<>>
    /\ decided["landmask_tiles"] = <<>>
    /\ decided' = [decided EXCEPT !["landmask_tiles"] =
                      Decide("landmask_tiles", class_codes)]
    /\ UNCHANGED class_codes

\* preprocess.py lines 32-34, compared with 1
DecidePreprocess ==
    /\ class_codes /= <<>>
    /\ decided["preprocess"] = <<>>
    /\ decided' = [decided EXCEPT !["preprocess"] =
                      Decide("preprocess", class_codes)]
    /\ UNCHANGED class_codes

-----------------------------------------------------------------------------
(* snap_to_worldcover_grid called on a value *)

InitSnap ==
    /\ ClassIdle
    /\ FillIdle
    /\ ScriptIdle
    /\ value \in -MaxValue..MaxValue
    /\ snapped = 0
    /\ spc = "call"
    /\ TilesIdle
    /\ AccIdle
    /\ MaskIdle

NextSnap == SnapCall

SpecSnap == InitSnap /\ [][NextSnap]_vars

-----------------------------------------------------------------------------
(* find_required_worldcover_tiles called with bounds_wgs84 *)

InitTiles ==
    /\ ClassIdle
    /\ FillIdle
    /\ ScriptIdle
    /\ SnapIdle
    /\ AccIdle
    /\ MaskIdle
    /\ bounds_wgs84 \in Degrees(MaxLon) \X Degrees(MaxLat)
                        \X Degrees(MaxLon) \X Degrees(MaxLat)
    /\ filename_suffix \in {MapSuffix, PreprocessedSuffix}
    /\ worldcover_dir \in SUBSET DirUniverse(filename_suffix)
    /\ lat = 0
    /\ lon = 0
    /\ tiles = {}
    /\ sorted_tiles = <<>>
    /\ paths = <<>>
    /\ tpc = "call"
    /\ calls = 1
    /\ first_paths = <<>>

NextTiles ==
    \/ FindCall /\ UNCHANGED <<snapVars, accVars, maskVars, scriptVars, fillVars, classVars>>
    \/ LatLoopEnter /\ UNCHANGED <<snapVars, accVars, maskVars, scriptVars, fillVars, classVars>>
    \/ LonLoopBody /\ UNCHANGED <<snapVars, accVars, maskVars, scriptVars, fillVars, classVars>>
    \/ LonLoopExit /\ UNCHANGED <<snapVars, accVars, maskVars, scriptVars, fillVars, classVars>>
    \/ LatLoopExit /\ UNCHANGED <<snapVars, accVars, maskVars, scriptVars, fillVars, classVars>>
    \/ ResolveTile /\ UNCHANGED <<snapVars, accVars, maskVars, scriptVars, fillVars, classVars>>
    \/ RaiseNoTiles /\ UNCHANGED <<snapVars, accVars, maskVars, scriptVars, fillVars, classVars>>
    \/ ReturnPaths /\ UNCHANGED <<snapVars, accVars, maskVars, scriptVars, fillVars, classVars>>
    \/ CallAgain /\ UNCHANGED <<snapVars, accVars, maskVars, scriptVars, fillVars, classVars>>

SpecTiles == InitTiles /\ [][NextTiles]_vars

-----------------------------------------------------------------------------
(* reproject_*_tiles_to_s1 called on a list of tiles *)

SeqsUpTo(S, n) == UNION { [1..k -> S] : k \in 0..n }

InitAcc ==
    /\ ClassIdle
    /\ FillIdle
    /\ ScriptIdle
    /\ SnapIdle
    /\ TilesIdle
    /\ MaskIdle
    /\ variant \in {"worldcover", "landmask", "preprocessed"}
    /\ tile_paths \in SeqsUpTo(TileSet(variant, AccShape), MaxTiles)
    /\ dst = <<>>
    /\ first_write = FALSE
    /\ path_idx = 0
    /\ apc = "call"

NextAcc ==
    \/ AccCall /\ UNCHANGED <<snapVars, tileVars, maskVars, scriptVars, fillVars, classVars>>
    \/ SkipTile /\ UNCHANGED <<snapVars, tileVars, maskVars, scriptVars, fillVars, classVars>>
    \/ ReprojectTile /\ UNCHANGED <<snapVars, tileVars, maskVars, scriptVars, fillVars, classVars>>
    \/ AccReturn /\ UNCHANGED <<snapVars, tileVars, maskVars, scriptVars, fillVars, classVars>>

SpecAcc == InitAcc /\ [][NextAcc]_vars

-----------------------------------------------------------------------------
(* classification, cleanup and application run on an aligned array *)

\* the code for water and for land in the arrays each script classifies
WaterCode(rl) == IF rl = "run_land_mask" THEN LmWater ELSE WcWater
LandCode(rl) == IF rl = "run_land_mask" THEN LmLand ELSE WcTree

\* the pixel sets that are land in the aligned arrays of a run: every set
\* for the coastline cleanup, every rectangle for the coarse cleanup
LandSets(rl, shape) ==
    IF rl = "run_land_mask" THEN SUBSET Pixels(shape)
    ELSE { { p \in Pixels(shape) : /\ r1 <= p[1] /\ p[1] < r2
                                   /\ c1 <= p[2] /\ p[2] < c2 } :
             r1 \in 0..shape[1], r2 \in 0..shape[1],
             c1 \in 0..shape[2], c2 \in 0..shape[2] }

\* aligned arrays: nodata nowhere, in the first column or everywhere, land
\* on a land set and water at every other pixel
AlignedArrays(rl, shape) ==
    { [p \in Pixels(shape) |->
         IF p \in hole THEN AlignedNodata(rl)
         ELSE IF p \in land THEN LandCode(rl)
         ELSE WaterCode(rl)] :
      hole \in { {}, { p \in Pixels(shape) : p[2] = 0 }, Pixels(shape) },
      land \in LandSets(rl, shape) }

\* SAR arrays: finite values with a not-a-number fringe in the last row
SarArrays(shape) ==
    { [p \in Pixels(shape) |->
         IF p[1] = shape[1] - 1 THEN NaN
         ELSE IF p[2] = 0 THEN "0.1" ELSE "0.2"] }

InitMask ==
    /\ ClassIdle
    /\ FillIdle
    /\ ScriptIdle
    /\ SnapIdle
    /\ TilesIdle
    /\ AccIdle
    /\ rule \in {"land_mask_hybrid", "build_land_mask", "run_land_mask"}
    /\ aligned \in AlignedArrays(rule, MaskShape(rule))
    /\ land_mask = <<>>
    /\ sar_array \in SarArrays(MaskShape(rule))
    /\ sar_land_removed = <<>>
    /\ mpc = "aligned"

NextMask ==
    \/ ClassifyStep /\ UNCHANGED <<snapVars, tileVars, accVars, scriptVars, fillVars, classVars>>
    \/ CleanupStep /\ UNCHANGED <<snapVars, tileVars, accVars, scriptVars, fillVars, classVars>>
    \/ ApplyStep /\ UNCHANGED <<snapVars, tileVars, accVars, scriptVars, fillVars, classVars>>

SpecMask == InitMask /\ [][NextMask]_vars

-----------------------------------------------------------------------------
(* run_land_mask.py run on a list of scenes and a directory of tiles *)

InitBatch ==
    /\ ClassIdle
    /\ FillIdle
    /\ SnapIdle
    /\ TilesIdle
    /\ AccIdle
    /\ MaskIdle
    /\ SCENES \in SeqsUpTo(SceneSet, MaxScenes)
    /\ worldcover_files \in Directories(FileCells)
    /\ idx = 0
    /\ dpc = "loop"
    /\ hh = <<>>
    /\ hv = <<>>
    /\ bounds = <<>>
    /\ WC_PATHS = <<>>
    /\ wc_mosaic = <<>>
    /\ written = <<>>

NextBatch ==
    \/ LoadHH /\ UNCHANGED <<snapVars, tileVars, accVars, maskRest, wc_mosaic, fillVars, classVars>>
    \/ SkipNoFinite /\ UNCHANGED <<snapVars, tileVars, accVars, maskRest, wc_mosaic, fillVars, classVars>>
    \/ DeriveAoi /\ UNCHANGED <<snapVars, tileVars, accVars, maskRest, wc_mosaic, fillVars, classVars>>
    \/ SelectTiles /\ UNCHANGED <<snapVars, tileVars, accVars, maskRest, wc_mosaic, fillVars, classVars>>
    \/ SelectTilesRaises /\ UNCHANGED <<snapVars, tileVars, accVars, maskRest, wc_mosaic, fillVars, classVars>>
    \/ ReprojectTiles /\ UNCHANGED <<snapVars, tileVars, accVars, maskRest, wc_mosaic, fillVars, classVars>>
    \/ SkipAllNodata /\ UNCHANGED <<snapVars, tileVars, accVars, maskRest, wc_mosaic, fillVars, classVars>>
    \/ CleanMask /\ UNCHANGED <<snapVars, tileVars, accVars, maskRest, wc_mosaic, fillVars, classVars>>
    \/ ApplyHH /\ UNCHANGED <<snapVars, tileVars, accVars, maskRest, wc_mosaic, fillVars, classVars>>
    \/ SkipGridMismatch /\ UNCHANGED <<snapVars, tileVars, accVars, maskRest, wc_mosaic, fillVars, classVars>>
    \/ ApplyHV /\ UNCHANGED <<snapVars, tileVars, accVars, maskRest, wc_mosaic, fillVars, classVars>>
    \/ WriteOutputs /\ UNCHANGED <<snapVars, tileVars, accVars, maskRest, wc_mosaic, fillVars, classVars>>
    \/ BatchDone /\ UNCHANGED <<snapVars, tileVars, accVars, maskRest, wc_mosaic, fillVars, classVars>>

SpecBatch == InitBatch /\ [][NextBatch]_vars

-----------------------------------------------------------------------------
(* land_mask_hybrid.py run on a scene and a directory of tiles *)

InitHybrid ==
    /\ ClassIdle
    /\ FillIdle
    /\ SnapIdle
    /\ TilesIdle
    /\ AccIdle
    /\ MaskIdle
    /\ SCENES \in { <<sc>> : sc \in HybridScenes }
    /\ worldcover_files \in Directories(HybridCells)
    /\ idx = 0
    /\ dpc = "h_load"
    /\ hh = <<>>
    /\ hv = <<>>
    /\ bounds = <<>>
    /\ WC_PATHS = <<>>
    /\ wc_mosaic = <<>>
    /\ written = <<>>

NextHybrid ==
    \/ HybridLoad /\ UNCHANGED <<snapVars, tileVars, accVars, maskRest, fillVars, classVars>>
    \/ HybridAoi /\ UNCHANGED <<snapVars, tileVars, accVars, maskRest, fillVars, classVars>>
    \/ HybridAoiRaises /\ UNCHANGED <<snapVars, tileVars, accVars, maskRest, fillVars, classVars>>
    \/ HybridSelect /\ UNCHANGED <<snapVars, tileVars, accVars, maskRest, fillVars, classVars>>
    \/ HybridSelectRaises /\ UNCHANGED <<snapVars, tileVars, accVars, maskRest, fillVars, classVars>>
    \/ HybridMosaic /\ UNCHANGED <<snapVars, tileVars, accVars, maskRest, fillVars, classVars>>
    \/ HybridReproject /\ UNCHANGED <<snapVars, tileVars, accVars, maskRest, fillVars, classVars>>
    \/ HybridBuildMask /\ UNCHANGED <<snapVars, tileVars, accVars, maskRest, fillVars, classVars>>
    \/ HybridSaveMask /\ UNCHANGED <<snapVars, tileVars, accVars, maskRest, fillVars, classVars>>
    \/ HybridApplyWrite /\ UNCHANGED <<snapVars, tileVars, accVars, maskRest, fillVars, classVars>>

SpecHybrid == InitHybrid /\ [][NextHybrid]_vars

-----------------------------------------------------------------------------
(* binary_fill_holes called on a mask *)

InitFill ==
    /\ ClassIdle
    /\ SnapIdle
    /\ TilesIdle
    /\ AccIdle
    /\ MaskIdle
    /\ ScriptIdle
    /\ fill_input \in [Pixels(FillShape) -> BOOLEAN]
    /\ fill_output = <<>>
    /\ fpc = "call"

NextFill ==
    FillCall /\ UNCHANGED <<snapVars, tileVars, accVars, maskVars, scriptVars,
                           classVars>>

SpecFill == InitFill /\ [][NextFill]_vars

-----------------------------------------------------------------------------
(* find_required_worldcover_tiles called with bounds at the poles and at the *)
(* antimeridian, in either order                                            *)

\* longitudes and latitudes next to the antimeridian and the poles
EdgeLons == { d * Scale : d \in {-180, -179, -176, 176, 178, 179, 180} }
EdgeLats == { d * Scale : d \in {-90, -89, -86, 86, 88, 89, 90} }

\* the pairs (low, high) of a set, in either order, that do not span the
\* whole range from the negative end to the positive end
EdgePairs(S) == { pr \in S \X S : ~(pr[1] < 0 /\ pr[2] > 0) }

\* directories: empty, or holding the tiles of two cells at the corners
EdgeDirectories ==
    { {}, { worldcover_tile_name(87, 177, MapSuffix),
            worldcover_tile_name(-90, -180, MapSuffix) } }

InitEnum ==
    /\ ClassIdle
    /\ SnapIdle
    /\ AccIdle
    /\ MaskIdle
    /\ ScriptIdle
    /\ FillIdle
    /\ \E we \in EdgePairs(EdgeLons), sn \in EdgePairs(EdgeLats) :
          bounds_wgs84 = <<we[1], sn[1], we[2], sn[2]>>
    /\ filename_suffix = MapSuffix
    /\ worldcover_dir \in EdgeDirectories
    /\ lat = 0
    /\ lon = 0
    /\ tiles = {}
    /\ sorted_tiles = <<>>
    /\ paths = <<>>
    /\ tpc = "call"
    /\ calls = 1
    /\ first_paths = <<>>

NextEnum ==
    \/ FindCall /\ UNCHANGED <<snapVars, accVars, maskVars, scriptVars, fillVars, classVars>>
    \/ LatLoopEnter /\ UNCHANGED <<snapVars, accVars, maskVars, scriptVars, fillVars, classVars>>
    \/ LonLoopBody /\ UNCHANGED <<snapVars, accVars, maskVars, scriptVars, fillVars, classVars>>
    \/ LonLoopExit /\ UNCHANGED <<snapVars, accVars, maskVars, scriptVars, fillVars, classVars>>
    \/ LatLoopExit /\ UNCHANGED <<snapVars, accVars, maskVars, scriptVars, fillVars, classVars>>
    \/ ResolveTile /\ UNCHANGED <<snapVars, accVars, maskVars, scriptVars, fillVars, classVars>>
    \/ RaiseNoTiles /\ UNCHANGED <<snapVars, accVars, maskVars, scriptVars, fillVars, classVars>>
    \/ ReturnPaths /\ UNCHANGED <<snapVars, accVars, maskVars, scriptVars, fillVars, classVars>>

\* the interpreter runs the call to its end: a step that can be taken is
\* taken
SpecEnum == InitEnum /\ [][NextEnum]_vars /\ WF_vars(NextEnum)

-----------------------------------------------------------------------------
(* the four classification rules applied to the same array of codes *)

InitClass ==
    /\ SnapIdle
    /\ TilesIdle
    /\ AccIdle
    /\ MaskIdle
    /\ ScriptIdle
    /\ FillIdle
    /\ class_codes \in [Pixels(ClassShape) -> WorldCoverCodes \cup {DST_NODATA}]
    /\ decided = [r \in ClassRules |-> <<>>]

NextClass ==
    \/ DecideHybrid /\ UNCHANGED <<snapVars, tileVars, accVars, maskVars, scriptVars, fillVars>>
    \/ DecideBinary /\ UNCHANGED <<snapVars, tileVars, accVars, maskVars, scriptVars, fillVars>>
    \/ DecideLandmaskTiles /\ UNCHANGED <<snapVars, tileVars, accVars, maskVars, scriptVars, fillVars>>
    \/ DecidePreprocess /\ UNCHANGED <<snapVars, tileVars, accVars, maskVars, scriptVars, fillVars>>

SpecClass == InitClass /\ [][NextClass]_vars

-----------------------------------------------------------------------------
(* C1..C4 *)

\* C1: snap_to_worldcover_grid floors toward negative infinity: the result g
\* is an integer multiple of 3 with g <= v < g + 3, also for negative v;
\* -0.1 snaps to -3, 0.0 to 0, 2.9 to 0 and 3.0 to 3.
C1_SnapFloors ==
    spc = "returned" =>
        /\ snapped % CellSize = 0
        /\ snapped * Scale <= value
        /\ value < (snapped + CellSize) * Scale
        /\ (value = -1 => snapped = -CellSize)
        /\ (value = 0 => snapped = 0)
        /\ (value = CellSize * Scale - 1 => snapped = 0)
        /\ (value = CellSize * Scale => snapped = CellSize)

\* a negative input that is not on the grid has been snapped
C1_Witness == spc = "returned" /\ value = -1 /\ snapped = -CellSize

\* the 3 degree grid cells (southwest corners) around the bounds' range
GridCells ==
    { <<la, lo>> \in
        { CellSize * i : i \in -(MaxLat + 1)..(MaxLat + 1) } \X
        { CellSize * i : i \in -(MaxLon + 1)..(MaxLon + 1) } : TRUE }

\* the cells whose footprint overlaps the bounds under the half-open rule
OverlappingCells ==
    { c \in GridCells :
        /\ (c[2] + CellSize) * Scale > West
        /\ c[2] * Scale < East
        /\ (c[1] + CellSize) * Scale > South
        /\ c[1] * Scale < North }

EnumerationDone == tpc \in {"resolve", "returned", "raised"}

\* C2: for bounds with west < east and south < north the cells enumerated
\* are exactly the 3 degree grid cells that overlap the bounds under the
\* half-open rule: none is disjoint from the bounds, none is left out.
C2_ExactCells ==
    (EnumerationDone /\ West < East /\ South < North) =>
        /\ tiles = { worldcover_tile_name(c[1], c[2], filename_suffix) :
                        c \in OverlappingCells }
        /\ Cardinality(tiles) = Cardinality(OverlappingCells)

\* bounds that start west of Greenwich and south of the equator, off the
\* grid, and end on a grid line: four cells
C2_Witness ==
    /\ EnumerationDone
    /\ West = -Scale /\ South = -Scale
    /\ East = CellSize * Scale /\ North = Scale
    /\ Cardinality(tiles) = 4

\* C3: the paths returned are candidate tiles that exist in the directory,
\* each at most once, in lexicographic order of the file name; a second
\* call with the same bounds and directory returns the same list.
C3_SortedExisting ==
    tpc = "returned" =>
        /\ \A i \in 1..Len(paths) :
              paths[i] \in worldcover_dir /\ paths[i] \in tiles
        /\ \A i \in 1..Len(paths) : \A j \in 1..Len(paths) :
              i < j => LexLess(paths[i], paths[j])
        /\ (calls = 2 => paths = first_paths)

\* a second call has returned two or more tiles
C3_Witness == tpc = "returned" /\ calls = 2 /\ Len(paths) >= 2

\* C4: when no candidate tile exists in the directory (also when there is no
\* candidate cell at all) the call raises; it never returns an empty list.
C4_RaisesOnNoTiles ==
    /\ (tpc = "returned" => paths /= <<>>)
    /\ (tpc \in {"returned", "raised"} =>
          (tpc = "raised" <=> tiles \cap worldcover_dir = {}))

\* raised with candidates none of which exists, and raised with no candidate
C4_Witness ==
    /\ tpc = "raised"
    /\ tiles /= {}
    /\ worldcover_dir /= {}

C4_WitnessNoCell == tpc = "raised" /\ tiles = {}

\* the tiles of the list that are not skipped and whose nearest source pixel
\* at p is not the tile's nodata
WritersAt(p) ==
    { i \in 1..Len(tile_paths) :
        /\ Overlaps(tile_paths[i].box, array_bounds(AccShape))
        /\ p \in Footprint(tile_paths[i], AccShape)
        /\ SourceOf(variant, tile_paths[i])[p] /= SrcNodata(variant) }

\* C5: after the accumulation every destination pixel holds the value of the
\* last tile in list order that is not skipped and whose nearest source pixel
\* there is not the tile's nodata; a pixel with no such tile holds dst_nodata
\* (so the later tile wins a collision, and all tiles skipped gives an all
\* nodata array, returned without an error).
C5_LastWriteWins ==
    apc = "returned" =>
        \A p \in Pixels(AccShape) :
            dst[p] = IF WritersAt(p) = {} THEN DstNodata(variant)
                     ELSE SourceOf(variant, tile_paths[Max(WritersAt(p))])[p]

\* two tiles collide on a pixel with different values, and the later tile's
\* other pixel is nodata over a value of the earlier tile
C5_Witness ==
    /\ apc = "returned"
    /\ Len(tile_paths) = 2
    /\ \E p \in Pixels(AccShape) :
          /\ WritersAt(p) = {1, 2}
          /\ tile_paths[1].data[p] /= tile_paths[2].data[p]
    /\ \E p \in Pixels(AccShape) :
          /\ WritersAt(p) = {1}
          /\ p \in Footprint(tile_paths[2], AccShape)

\* every tile of a non-empty list skipped: all nodata, returned
C5_WitnessAllSkipped ==
    /\ apc = "returned"
    /\ Len(tile_paths) = 2
    /\ \A i \in 1..2 : ~Overlaps(tile_paths[i].box, array_bounds(AccShape))
    /\ \A p \in Pixels(AccShape) : dst[p] = DstNodata(variant)

\* C6: in every variant a pixel equal to the aligned array's nodata sentinel
\* gets mask value false by the classification, before any cleanup.
C6_NodataIsNotLand ==
    mpc = "classified" =>
        \A p \in DOMAIN aligned :
            aligned[p] = AlignedNodata(rule) => ~land_mask[p]

\* classified: a nodata column beside land
C6_Witness ==
    /\ mpc = "classified"
    /\ \E p \in DOMAIN aligned : aligned[p] = AlignedNodata(rule)
    /\ \E p \in DOMAIN aligned : land_mask[p]

\* C7: mask application overwrites exactly the pixels where the mask is true
\* with not-a-number and leaves every other pixel unchanged; an all-false
\* mask leaves the array unchanged, an all-true mask gives not-a-number
\* everywhere.
C7_ApplyExact ==
    mpc = "applied" =>
        /\ \A p \in DOMAIN aligned :
              /\ land_mask[p] => sar_land_removed[p] = NaN
              /\ ~land_mask[p] => sar_land_removed[p] = sar_array[p]
        /\ (land_mask = AllFalse(MaskShape(rule)) => sar_land_removed = sar_array)
        /\ (land_mask = AllTrue(MaskShape(rule)) =>
              \A p \in DOMAIN aligned : sar_land_removed[p] = NaN)

\* applied with a mask that is true at some pixels and false at others, over
\* an array with finite values
C7_Witness ==
    /\ mpc = "applied"
    /\ \E p \in DOMAIN aligned : land_mask[p] /\ sar_array[p] /= NaN
    /\ \E p \in DOMAIN aligned : ~land_mask[p] /\ sar_array[p] /= NaN

C7_WitnessAllTrue ==
    mpc = "applied" /\ land_mask = AllTrue(MaskShape(rule)) /\ sar_array[<<0, 0>>] /= NaN

C7_WitnessAllFalse ==
    /\ mpc = "applied"
    /\ land_mask = AllFalse(MaskShape(rule))
    /\ \E p \in DOMAIN aligned : sar_array[p] = NaN

-----------------------------------------------------------------------------
(* C8..C10 *)

\* the pixels of an array that hold the missing sentinel
Missing(a) == { p \in DOMAIN a : a[p] = NaN }

\* C8: within one scene of run_land_mask.py HH and HV are masked with the
\* same mask: when the two images are about to be written, HH is the HH
\* that was read with not-a-number at the true pixels of land_mask, HV is
\* the HV that was read with not-a-number at the true pixels of the same
\* land_mask, so a pixel that went missing in one of the two is missing in
\* the other;
\* and HV is masked, and the scene written, only when the CRS, transform
\* and shape of HV equal those of HH.
C8_SameMaskBothChannels ==
    /\ dpc = "write" =>
         /\ SameGrid(Scene.hv_grid, HHGrid(Scene))
         /\ hh = ApplyMask(land_mask, Scene.hh)
         /\ hv = ApplyMask(land_mask, Scene.hv)
         /\ Missing(hh) \ Missing(Scene.hh) \subseteq Missing(hv)
         /\ Missing(hv) \ Missing(Scene.hv) \subseteq Missing(hh)
    /\ \A i \in 1..Len(written) :
         SameGrid(SCENES[written[i].scene].hv_grid, HHGrid(SCENES[written[i].scene]))

\* a scene about to be written whose mask is true at some pixels and false
\* at others, and that covers a finite pixel of HH and one of HV
C8_Witness ==
    /\ dpc = "write"
    /\ \E p \in DOMAIN land_mask : land_mask[p]
    /\ \E p \in DOMAIN land_mask : ~land_mask[p]
    /\ \E p \in DOMAIN land_mask : land_mask[p] /\ Scene.hh[p] /= NaN
    /\ \E p \in DOMAIN land_mask : land_mask[p] /\ Scene.hv[p] /= NaN

\* a scene abandoned at the grid check after HH was masked: nothing of it
\* is written
C8_WitnessMismatch ==
    /\ dpc = "loop"
    /\ idx > 0
    /\ hh /= <<>>
    /\ hh /= Scene.hh
    /\ ~SameGrid(Scene.hv_grid, HHGrid(Scene))
    /\ \A i \in 1..Len(written) : written[i].scene /= idx

\* C9: in run_land_mask.py every fatal scene error is scene-scoped: the
\* batch is never aborted, and when the script ends every scene of SCENES
\* has had its turn.
C9_BatchNeverAborted ==
    /\ dpc /= "aborted"
    /\ dpc = "done" => idx = Len(SCENES)

\* C10: no script writes a mask file or a masked image for a scene whose
\* aligned land-cover array holds no valid pixel.
C10_NoWriteWhenAllNodata ==
    \A i \in 1..Len(written) :
        written[i].scene = idx =>
            \E p \in DOMAIN aligned : aligned[p] \notin {DST_NODATA, LmNodata}

\* run_land_mask.py abandons a scene whose aligned array is all nodata
BatchSkipsAllNodata ==
    dpc \in {"apply_hh", "load_hv", "write"} => ~AllNodata(aligned, LmNodata)

\* the stepwise runs of the two modules return what the whole calls return
TilesCallAgrees ==
    /\ tpc = "returned" =>
         paths = find_required_worldcover_tiles(bounds_wgs84, worldcover_dir,
                                                filename_suffix)
    /\ tpc = "raised" =>
         NoPaths(find_required_worldcover_tiles(bounds_wgs84, worldcover_dir,
                                                filename_suffix))

AccCallAgrees ==
    apc = "returned" => dst = reproject_tiles_to_s1(variant, tile_paths, AccShape)

-----------------------------------------------------------------------------
(* C11..C15 *)

\* the neighbours of p inside the array, across edges and corners
Neighbours8(p, shape) ==
    { q \in ((p[1] - 1)..(p[1] + 1)) \X ((p[2] - 1)..(p[2] + 1)) :
        /\ q /= p
        /\ 0 <= q[1] /\ q[1] < shape[1]
        /\ 0 <= q[2] /\ q[2] < shape[2] }

\* the false pixels of m reachable from the border through false pixels,
\* a step going to any of the eight neighbours
RECURSIVE Reach8(_, _, _)
Reach8(m, shape, reached) ==
    LET more == { p \in Pixels(shape) :
                    /\ ~m[p]
                    /\ \/ p \in reached
                       \/ OnBorder(p, shape)
                       \/ \E q \in Neighbours8(p, shape) : q \in reached }
    IN  IF more = reached THEN reached ELSE Reach8(m, shape, more)

\* the same with steps across edges only
RECURSIVE Reach4(_, _, _)
Reach4(m, shape, reached) ==
    LET more == { p \in Pixels(shape) :
                    /\ ~m[p]
                    /\ \/ p \in reached
                       \/ OnBorder(p, shape)
                       \/ \E q \in Neighbours(p, shape) : q \in reached }
    IN  IF more = reached THEN reached ELSE Reach4(m, shape, more)

\* C11: binary_fill_holes flips to true exactly the false pixels that cannot
\* be reached from the border through false pixels under 8-connectivity: the
\* result is true at the true pixels of the input and at the false pixels
\* that are not reachable, and false at every reachable pixel.
C11_FillHolesEightConnected ==
    fpc = "returned" =>
        \A p \in Pixels(FillShape) :
            fill_output[p] <=> (fill_input[p] \/ p \notin Reach8(fill_input, FillShape, {}))

\* what the call does: reachability across edges only
FillHolesFourConnected ==
    fpc = "returned" =>
        \A p \in Pixels(FillShape) :
            fill_output[p] <=> (fill_input[p] \/ p \notin Reach4(fill_input, FillShape, {}))

\* a false pixel joined to the border across a corner only, after the call
FillDiagonalCase ==
    /\ fpc = "returned"
    /\ \E p \in Pixels(FillShape) :
          /\ ~fill_input[p]
          /\ p \in Reach8(fill_input, FillShape, {})
          /\ p \notin Reach4(fill_input, FillShape, {})

\* the call has ended
Terminated == tpc \in {"returned", "raised"}

\* west >= east or south >= north
Degenerate == West >= East \/ South >= North

\* the grid lines of the bounds' range
LonLines == { CellSize * i : i \in -61..61 }
LatLines == { CellSize * i : i \in -31..31 }

\* the cells that pass the four comparisons of the overlap test
PassingCells ==
    { la \in LatLines : la * Scale < North /\ (la + CellSize) * Scale > South }
    \X { lo \in LonLines : lo * Scale < East /\ (lo + CellSize) * Scale > West }

\* C12 as stated: the enumeration terminates for every bounds, and for
\* bounds with west >= east or south >= north it enumerates no cell.
C12_TerminatesNoCellWhenDegenerate ==
    /\ <>Terminated
    /\ []((EnumerationDone /\ Degenerate) => tiles = {})

\* C12 amended: the enumeration terminates for every bounds, those with
\* west >= east or south >= north and those at the poles and at the
\* antimeridian included; for bounds with west >= east or south >= north it
\* enumerates exactly the cells that pass the four comparisons of the overlap
\* test, which is no cell only when no grid cell passes them.
C12_TerminatesEveryBounds ==
    /\ <>Terminated
    /\ []((EnumerationDone /\ Degenerate) =>
            tiles = { worldcover_tile_name(c[1], c[2], filename_suffix) :
                        c \in PassingCells })

\* the call has ended for bounds of no width, off the grid, that reach the
\* north pole next to the antimeridian: one cell was enumerated
C12_Witness ==
    /\ Terminated
    /\ West = 179 * Scale /\ East = 179 * Scale
    /\ South = 88 * Scale /\ North = 90 * Scale
    /\ Cardinality(tiles) = 1

\* the call has ended for bounds that cross the antimeridian, east below
\* west: no cell was enumerated
C12_WitnessAntimeridian ==
    /\ Terminated
    /\ West = 179 * Scale /\ East = -179 * Scale
    /\ South < North
    /\ tiles = {}

\* the tile the loop is at
CurrentTile == tile_paths[path_idx]

\* a tile before the one the loop is at has been written
SomeTileWritten ==
    \E i \in 1..(path_idx - 1) :
        Overlaps(tile_paths[i].box, array_bounds(AccShape))

\* C13: in the accumulation loop the destination is initialised to nodata
\* for the first tile that is written and for no later one: first_write is
\* true exactly while no tile has been written; a skipped tile leaves the
\* flag and the array as they are; the first tile written leaves nodata at
\* every pixel it does not write and clears the flag; and a later tile
\* leaves no pixel at nodata that held a valid value.
C13_InitialisedOnce ==
    /\ [](apc = "loop" => (first_write <=> ~SomeTileWritten))
    /\ [][(apc = "loop" /\ path_idx' = path_idx + 1) =>
            IF ~Overlaps(CurrentTile.box, array_bounds(AccShape))
            THEN first_write' = first_write /\ dst' = dst
            ELSE /\ first_write' = FALSE
                 /\ first_write =>
                      \A p \in Pixels(AccShape) :
                          dst'[p] = IF /\ p \in Footprint(CurrentTile, AccShape)
                                       /\ SourceOf(variant, CurrentTile)[p]
                                            /= SrcNodata(variant)
                                    THEN SourceOf(variant, CurrentTile)[p]
                                    ELSE DstNodata(variant)
                 /\ ~first_write =>
                      \A p \in Pixels(AccShape) :
                          dst[p] /= DstNodata(variant) =>
                              dst'[p] /= DstNodata(variant)]_vars

\* two tiles written: the second has a nodata source pixel over a valid
\* value of the first, and the value is still there
C13_Witness ==
    /\ apc = "loop"
    /\ path_idx = 3
    /\ ~first_write
    /\ \A i \in 1..2 : Overlaps(tile_paths[i].box, array_bounds(AccShape))
    /\ \E p \in Pixels(AccShape) :
          /\ p \in Footprint(tile_paths[2], AccShape)
          /\ SourceOf(variant, tile_paths[2])[p] = SrcNodata(variant)
          /\ dst[p] /= DstNodata(variant)

\* the first tile skipped, the flag still set, the second tile to come
C13_WitnessSkipped ==
    /\ apc = "loop"
    /\ path_idx = 2
    /\ first_write
    /\ Len(tile_paths) = 2
    /\ Overlaps(tile_paths[2].box, array_bounds(AccShape))

\* every rule has given its decision
AllDecided == decided /= <<>> /\ \A r \in ClassRules : decided[r] /= <<>>

\* C14 as stated: for every code of WorldCover and for the sentinel -1 the
\* four rules give the same land / not land decision.
C14_RulesAgreeWithSentinel ==
    AllDecided =>
        \A p \in Pixels(ClassShape) :
            \A r1 \in ClassRules, r2 \in ClassRules : decided[r1][p] = decided[r2][p]

\* C14 amended: for every code of WorldCover the four rules give the same
\* decision; for the sentinel -1 the land-set rule and the binary rule give
\* not land, and the two encodings of tile codes, whose nodata is 0 on the
\* way in and 255 on the way out, encode -1 as land.
C14_RulesAgreeOnCodes ==
    AllDecided =>
        \A p \in Pixels(ClassShape) :
            IF class_codes[p] \in WorldCoverCodes
            THEN /\ \A r1 \in ClassRules, r2 \in ClassRules :
                       decided[r1][p] = decided[r2][p]
                 /\ decided["preprocess"][p] <=>
                       class_codes[p] \notin {WcNodata, WcWater}
            ELSE /\ ~decided["land_mask_hybrid"][p]
                 /\ ~decided["build_land_mask"][p]
                 /\ decided["landmask_tiles"][p]
                 /\ decided["preprocess"][p]

\* all four rules have decided on an array holding water and wetland (95)
C14_Witness ==
    /\ AllDecided
    /\ class_codes[<<0, 0>>] = WcWater
    /\ class_codes[<<0, 1>>] = 95
    /\ ~decided["land_mask_hybrid"][<<0, 0>>]
    /\ decided["landmask_tiles"][<<0, 1>>]

\* all four rules have decided on an array holding the sentinel and nodata
C14_WitnessSentinel ==
    /\ AllDecided
    /\ class_codes[<<0, 0>>] = DST_NODATA
    /\ class_codes[<<0, 1>>] = WcNodata

\* C15: the cleanup of run_land_mask.py (closing, fill holes, dilation by
\* two) never turns land into water: every pixel that is true before the
\* cleanup is true after it, the pixels on the border rows and columns
\* included.
C15_CleanupKeepsLand ==
    (rule = "run_land_mask" /\ mpc \in {"cleaned", "applied"}) =>
        \A p \in DOMAIN aligned : ClassifyLandIsOne(aligned)[p] => land_mask[p]

\* what the cleanup does keep: a land pixel that is water afterwards lies on
\* a border row or column
CleanupLosesBorderLandOnly ==
    (rule = "run_land_mask" /\ mpc \in {"cleaned", "applied"}) =>
        \A p \in DOMAIN aligned :
            (ClassifyLandIsOne(aligned)[p] /\ ~land_mask[p]) =>
                OnBorder(p, MaskShape(rule))

====
